---- MODULE Spec2Model ----
(***************************************************************************)
(* Model of tutorials/Quantization/models/mobilenetv2.py: the channel      *)
(* rounder _make_divisible, the ConvBnReLU and InvertedResidual blocks,    *)
(* and construction and forward pass of MobileNetV2.                       *)
(*                                                                         *)
(* Real-valued arguments (v, width_mult) are rationals num/den; every      *)
(* comparison is cross-multiplied so the arithmetic is exact.  Tensors are *)
(* abstracted to their shape and their numeric representation.  Weight     *)
(* values (and so the weight initialisation of lines 141-152) are not      *)
(* part of the state.                                                      *)
(***************************************************************************)
EXTENDS Integers, Sequences, FiniteSets, TLC

VARIABLES md, blk, net, fwd

vars == <<md, blk, net, fwd>>

(***************************** bounds **************************************)
VDen == 4
MaxVNum == 80
MaxDivisor == 9
MaxMinValue == 3
MaxPlanesDiv8 == 4
MaxStride == 3
MaxRepeat == 2
MaxEntries == 2
WDen == 2
MaxWidthNum == 3
MaxClasses == 2
MaxBatch == 2
ImageSize == 224

(************************** program constants ******************************)
StemInputChannel == 32
HeadLastChannel == 1280
DefaultRoundNearest == 8
ImageChannels == 3

Max(a, b) == IF a >= b THEN a ELSE b

\* An optional argument: <<>> is None, <<m>> is the value m.
None == <<>>
Some(m) == <<m>>

(************************** _make_divisible ********************************)
\* int(v + divisor / 2) for v = vn/vd > 0: truncation of a positive real.
IntOfVPlusHalf(vn, vd, divisor) == (2 * vn + divisor * vd) \div (2 * vd)

\* new_v < 0.9 * v, for v = vn/vd.
BelowNinety(new_v, vn, vd) == 10 * new_v * vd < 9 * vn

\* _make_divisible without the "// divisor * divisor" of line 9.
MakeDivisibleNoFloor(vn, vd, divisor, min_value) ==
    LET mv == IF min_value = None THEN divisor ELSE min_value[1]
        new_v == Max(mv, IntOfVPlusHalf(vn, vd, divisor))
    IN  IF BelowNinety(new_v, vn, vd) THEN new_v + divisor ELSE new_v

\* _make_divisible without the compensating step of lines 11-12.
MakeDivisibleNoCompensation(vn, vd, divisor, min_value) ==
    LET mv == IF min_value = None THEN divisor ELSE min_value[1]
    IN  Max(mv, (IntOfVPlusHalf(vn, vd, divisor) \div divisor) * divisor)

\* Line 9: new_v before the compensating step.
Rounded(vn, vd, divisor, min_value) ==
    LET mv == IF min_value = None THEN divisor ELSE min_value[1]
    IN  Max(mv, (IntOfVPlusHalf(vn, vd, divisor) \div divisor) * divisor)

\* _make_divisible(v, divisor, min_value) with v = vn/vd.
MakeDivisible(vn, vd, divisor, min_value) ==
    LET new_v == Rounded(vn, vd, divisor, min_value)
    IN  IF BelowNinety(new_v, vn, vd) THEN new_v + divisor ELSE new_v

MinValues == {None} \cup {Some(m) : m \in 0..MaxMinValue}

MdIdle == [called |-> FALSE, vn |-> 0, vd |-> 1, divisor |-> 1,
           min_value |-> None, result |-> 0]

\* The arguments v = vn/VDen, divisor, min_value of a call to come.
MdArgs ==
    {[MdIdle EXCEPT !.vn = vn, !.vd = VDen, !.divisor = divisor, !.min_value = mv] :
        vn \in 1..MaxVNum, divisor \in 1..MaxDivisor, mv \in MinValues}

\* The call _make_divisible(v, divisor, min_value) returns.
CallMakeDivisible ==
    /\ ~md.called
    /\ md.vn > 0
    /\ md' = [md EXCEPT !.called = TRUE,
                        !.result = MakeDivisible(md.vn, md.vd, md.divisor, md.min_value)]
    /\ UNCHANGED <<blk, net, fwd>>

(****************************** modules ************************************)
\* nn.Conv2d(in, out, kernel_size, stride, padding, groups=groups, bias=False)
Conv2d(in, out, kernel_size, stride, padding, groups) ==
    [kind |-> "Conv2d", in |-> in, out |-> out, kernel_size |-> kernel_size,
     stride |-> stride, padding |-> padding, groups |-> groups, relu |-> FALSE]

\* nn.BatchNorm2d(num_features, momentum=0.1)
BatchNorm2d(num_features) ==
    [kind |-> "BatchNorm2d", in |-> num_features, out |-> num_features,
     kernel_size |-> 0, stride |-> 0, padding |-> 0, groups |-> 0, relu |-> FALSE]

\* ConvBnReLU(in, out, kernel_size, stride, groups): convolution with
\* padding (kernel_size - 1) // 2, normalisation, rectifier.
ConvBnReLU(in, out, kernel_size, stride, groups) ==
    [kind |-> "ConvBnReLU", in |-> in, out |-> out, kernel_size |-> kernel_size,
     stride |-> stride, padding |-> (kernel_size - 1) \div 2, groups |-> groups,
     relu |-> TRUE]

(************************** InvertedResidual *******************************)
\* The attributes line 44 would find had self.stride been assigned first.
SelfAttrsAtShortcutCheckWithStride ==
    {"training", "_parameters", "_buffers", "_modules", "stride"}

\* Instance attributes that exist when line 44 is evaluated: those that
\* nn.Module.__init__ (line 40) creates; lines 41-43 assign none.
SelfAttrsAtShortcutCheck ==
    {"training", "_parameters", "_buffers", "_modules"}

NoBlock(exc) ==
    [exc |-> exc, kind |-> "InvertedResidual", conv |-> <<>>,
     use_res_connect |-> FALSE, assigned |-> {}]

\* hidden_dim = int(round(in_planes * expand_ratio)), for integer arguments.
HiddenDim(in_planes, expand_ratio) == in_planes * expand_ratio

\* The layers list of lines 46-71.
InvertedResidualLayers(in_planes, out_planes, stride, expand_ratio) ==
    LET hidden_dim == HiddenDim(in_planes, expand_ratio)
        pw == IF expand_ratio # 1
              THEN <<ConvBnReLU(in_planes, hidden_dim, 1, 1, 1)>>
              ELSE <<>>
    IN  pw \o <<ConvBnReLU(hidden_dim, hidden_dim, 3, stride, hidden_dim),
                Conv2d(hidden_dim, out_planes, 1, 1, 0, 1),
                BatchNorm2d(out_planes)>>

\* InvertedResidual.__init__: the object built, or the exception raised.
InvertedResidual(in_planes, out_planes, stride, expand_ratio) ==
    IF stride \notin {1, 2} THEN NoBlock("AssertionError")
    ELSE IF "stride" \notin SelfAttrsAtShortcutCheck THEN NoBlock("AttributeError")
    ELSE [exc |-> "none", kind |-> "InvertedResidual",
          conv |-> InvertedResidualLayers(in_planes, out_planes, stride, expand_ratio),
          use_res_connect |-> (stride = 1 /\ in_planes = out_planes),
          assigned |-> {"use_res_connect", "conv", "skip_add"}]

PlaneCounts == {8 * k : k \in 1..MaxPlanesDiv8}
ExpandRatios == {1, 2, 6}
Strides == 0..MaxStride

BlkIdle == [called |-> FALSE, in_planes |-> 0, out_planes |-> 0, stride |-> 0,
            expand_ratio |-> 0, obj |-> NoBlock("none")]

BlkCall(in_planes, out_planes, stride, expand_ratio) ==
    [called |-> TRUE, in_planes |-> in_planes, out_planes |-> out_planes,
     stride |-> stride, expand_ratio |-> expand_ratio,
     obj |-> InvertedResidual(in_planes, out_planes, stride, expand_ratio)]

\* The arguments of a direct construction to come.
BlkArgs ==
    {[BlkIdle EXCEPT !.in_planes = in_planes, !.out_planes = out_planes,
                     !.stride = stride, !.expand_ratio = t] :
        in_planes \in PlaneCounts, out_planes \in PlaneCounts,
        stride \in Strides, t \in ExpandRatios}

\* A direct construction InvertedResidual(in_planes, out_planes, stride, t).
InvertedResidualInit ==
    /\ ~blk.called
    /\ blk.in_planes > 0
    /\ blk' = BlkCall(blk.in_planes, blk.out_planes, blk.stride, blk.expand_ratio)
    /\ UNCHANGED <<md, net, fwd>>

(***************************** tensors *************************************)
\* A tensor: its shape (n, c, h, w) (h = w = 0 once the spatial dimensions
\* are reduced away), its representation, and whether an operation failed.
Tensor(n, c, h, w, repr) ==
    [ok |-> TRUE, n |-> n, c |-> c, h |-> h, w |-> w, repr |-> repr]

ShapeError(x) == [x EXCEPT !.ok = FALSE]

ConvOut(size, m) == (size + 2 * m.padding - m.kernel_size) \div m.stride + 1

\* forward of one module of a Sequential.
ModuleForward(m, x) ==
    IF ~x.ok THEN x
    ELSE IF x.c # m.in THEN ShapeError(x)
    ELSE IF m.kind = "BatchNorm2d" THEN x
    ELSE [x EXCEPT !.c = m.out, !.h = ConvOut(x.h, m), !.w = ConvOut(x.w, m)]

\* nn.Sequential.forward: the modules applied in order.
RECURSIVE SequentialForward(_, _)
SequentialForward(mods, x) ==
    IF mods = <<>> THEN x
    ELSE SequentialForward(Tail(mods), ModuleForward(Head(mods), x))

\* InvertedResidual.forward (and, for a ConvBnReLU of the trunk, its
\* Sequential forward): the shortcut addition needs equal shapes.
UsesShortcut(b) == b.use_res_connect

BlockForward(b, x) ==
    LET y == SequentialForward(b.conv, x)
    IN  IF UsesShortcut(b)
        THEN IF y.ok /\ (y.c # x.c \/ y.h # x.h \/ y.w # x.w) THEN ShapeError(y) ELSE y
        ELSE y

RECURSIVE FeaturesForward(_, _)
FeaturesForward(blocks, x) ==
    IF blocks = <<>> THEN x
    ELSE FeaturesForward(Tail(blocks), BlockForward(Head(blocks), x))

(***************************** MobileNetV2 *********************************)
DefaultSetting ==
    << <<1, 16, 1, 1>>, <<6, 24, 2, 2>>, <<6, 32, 3, 2>>, <<6, 64, 4, 2>>,
       <<6, 96, 3, 1>>, <<6, 160, 3, 2>>, <<6, 320, 1, 1>> >>

\* A ConvBnReLU as an element of the trunk.
TrunkConvBnReLU(in, out, kernel_size, stride) ==
    [exc |-> "none", kind |-> "ConvBnReLU",
     conv |-> <<ConvBnReLU(in, out, kernel_size, stride, 1)>>,
     use_res_connect |-> FALSE, assigned |-> {}]

\* Lines 112-114: the check of the schedule.
SettingRejected(setting) == Len(setting) = 0 \/ Len(setting[1]) # 4

DocumentedValueError ==
    "ValueError: inverted_residual_setting should be non-empty or a 4-element list, got {}"
UnpackValueError == "ValueError: unpack (expected 4)"

NetIdle ==
    [pc |-> "idle", exc |-> "none", arg_none |-> FALSE, setting |-> <<>>,
     num_classes |-> 0, wn |-> 0, round_nearest |-> 0,
     input_channel |-> 0, last_channel |-> 0, output_channel |-> 0,
     idx |-> 0, i |-> 0, features |-> <<>>, classifier |-> <<>>]

\* Lines 89-120: the default schedule, its check, the stem.
Construct(num_classes, wn, arg, round_nearest) ==
    /\ net.pc = "idle"
    /\ LET setting == IF arg = None THEN DefaultSetting ELSE arg[1]
           base == [NetIdle EXCEPT !.arg_none = (arg = None), !.setting = setting,
                                   !.num_classes = num_classes, !.wn = wn,
                                   !.round_nearest = round_nearest]
           input_channel == MakeDivisible(StemInputChannel * wn, WDen, round_nearest, None)
           last_channel == MakeDivisible(HeadLastChannel * Max(WDen, wn), WDen,
                                         round_nearest, None)
       IN  net' = IF SettingRejected(setting)
                  THEN [base EXCEPT !.pc = "raised", !.exc = DocumentedValueError]
                  ELSE [base EXCEPT !.pc = "loop", !.idx = 1,
                                    !.input_channel = input_channel,
                                    !.last_channel = last_channel,
                                    !.features = <<TrunkConvBnReLU(ImageChannels,
                                                       input_channel, 3, 2)>>]
    /\ UNCHANGED <<md, blk, fwd>>

\* Lines 123-124: the next entry is unpacked into t, c, n, s.
NextEntry ==
    /\ net.pc = "loop"
    /\ net.idx <= Len(net.setting)
    /\ LET e == net.setting[net.idx]
       IN  net' = IF Len(e) # 4
                  THEN [net EXCEPT !.pc = "raised", !.exc = UnpackValueError]
                  ELSE [net EXCEPT !.pc = "inner", !.i = 0,
                                   !.output_channel =
                                       MakeDivisible(e[2] * net.wn, WDen,
                                                     net.round_nearest, None)]
    /\ UNCHANGED <<md, blk, fwd>>

\* Lines 125-128: one iteration of the inner loop.
BuildBlock ==
    /\ net.pc = "inner"
    /\ LET e == net.setting[net.idx]
           stride == IF net.i = 0 THEN e[4] ELSE 1
           call == BlkCall(net.input_channel, net.output_channel, stride, e[1])
       IN  /\ net.i < e[3]
           /\ blk' = call
           /\ net' = IF call.obj.exc # "none"
                     THEN [net EXCEPT !.pc = "raised", !.exc = call.obj.exc]
                     ELSE [net EXCEPT !.features = Append(@, call.obj),
                                      !.input_channel = net.output_channel,
                                      !.i = @ + 1]
    /\ UNCHANGED <<md, fwd>>

\* Line 125: range(n) is exhausted; on to the next entry.
EndEntry ==
    /\ net.pc = "inner"
    /\ net.i >= net.setting[net.idx][3]
    /\ net' = [net EXCEPT !.pc = "loop", !.idx = @ + 1]
    /\ UNCHANGED <<md, blk, fwd>>

\* Lines 130-152: the head, the stubs, the classifier.
Finish ==
    /\ net.pc = "loop"
    /\ net.idx > Len(net.setting)
    /\ net' = [net EXCEPT !.pc = "done",
                          !.features = Append(@, TrunkConvBnReLU(net.input_channel,
                                                     net.last_channel, 1, 1)),
                          !.classifier = <<net.last_channel, net.num_classes>>]
    /\ UNCHANGED <<md, blk, fwd>>

(************************* MobileNetV2.forward *****************************)
\* forward with the dequant marker placed right after the trunk.
ForwardNextPcDequantBeforeMean(pc) ==
    CASE pc = "l155" -> "l156"
      [] pc = "l156" -> "l159"
      [] pc = "l159" -> "l157"
      [] pc = "l157" -> "l158"
      [] pc = "l158" -> "return"

\* The statement order of forward.
ForwardNextPc(pc) ==
    CASE pc = "l155" -> "l156"
      [] pc = "l156" -> "l157"
      [] pc = "l157" -> "l158"
      [] pc = "l158" -> "l159"
      [] pc = "l159" -> "return"

FwdIdle == [pc |-> "idle", qmode |-> FALSE, n |-> 0,
            x |-> Tensor(0, 0, 0, 0, "real"), trace |-> <<>>, mean_in |-> "none"]

FwdStep(line, x) ==
    [fwd EXCEPT !.pc = IF x.ok THEN ForwardNextPc(line) ELSE "raised",
                !.x = x, !.trace = Append(@, line)]

\* forward(x) is called on a constructed network.  qmode: the network was
\* converted, so that the stubs quantize and dequantize.
ForwardCall(n, qmode) ==
    /\ net.pc = "done"
    /\ fwd.pc \in {"idle", "return", "raised"}
    /\ fwd' = [FwdIdle EXCEPT !.pc = "l155", !.qmode = qmode, !.n = n,
                              !.x = Tensor(n, ImageChannels, ImageSize, ImageSize, "real")]
    /\ UNCHANGED <<md, blk, net>>

\* Line 155.
Quant ==
    /\ fwd.pc = "l155"
    /\ fwd' = FwdStep("l155", [fwd.x EXCEPT !.repr = IF fwd.qmode THEN "quantized" ELSE "real"])
    /\ UNCHANGED <<md, blk, net>>

\* Line 156.
Features ==
    /\ fwd.pc = "l156"
    /\ fwd' = FwdStep("l156", FeaturesForward(net.features, fwd.x))
    /\ UNCHANGED <<md, blk, net>>

\* Line 157: the mean over dimensions 2 and 3, in the representation of x.
Mean ==
    /\ fwd.pc = "l157"
    /\ fwd' = [FwdStep("l157", [fwd.x EXCEPT !.h = 0, !.w = 0])
                  EXCEPT !.mean_in = fwd.x.repr]
    /\ UNCHANGED <<md, blk, net>>

\* Line 158: dropout, then the linear layer.
Classifier ==
    /\ fwd.pc = "l158"
    /\ fwd' = FwdStep("l158",
                 IF fwd.x.c # net.classifier[1] \/ fwd.x.h # 0 THEN ShapeError(fwd.x)
                 ELSE [fwd.x EXCEPT !.c = net.classifier[2]])
    /\ UNCHANGED <<md, blk, net>>

\* Line 159.
Dequant ==
    /\ fwd.pc = "l159"
    /\ fwd' = FwdStep("l159", [fwd.x EXCEPT !.repr = "real"])
    /\ UNCHANGED <<md, blk, net>>

(*************************** specifications ********************************)
Init ==
    /\ md = MdIdle
    /\ blk = BlkIdle
    /\ net = NetIdle
    /\ fwd = FwdIdle

InitRounder ==
    /\ md \in MdArgs
    /\ blk = BlkIdle
    /\ net = NetIdle
    /\ fwd = FwdIdle

InitBlock ==
    /\ md = MdIdle
    /\ blk \in BlkArgs
    /\ net = NetIdle
    /\ fwd = FwdIdle

\* The entries a caller may pass at position k: t and c of the default
\* schedule's row k with any repeat count and stride, and malformed ones.
EntryStrides == {1, 2, 3}
Entries(k) ==
    {<<DefaultSetting[k][1], DefaultSetting[k][2], n, s>> :
        n \in 0..MaxRepeat, s \in EntryStrides}
    \cup {<<6, 24, 2>>, <<6, 24, 2, 2, 1>>}

RECURSIVE SettingsUpTo(_)
SettingsUpTo(k) ==
    IF k = 0 THEN {<<>>}
    ELSE LET shorter == SettingsUpTo(k - 1)
         IN  shorter \cup {Append(q, e) : q \in {r \in shorter : Len(r) = k - 1},
                                          e \in Entries(k)}

SettingArgs == {None} \cup {Some(q) : q \in SettingsUpTo(MaxEntries)}
RoundNearests == {DefaultRoundNearest, 1}
NumClasses == 1..MaxClasses

ConstructCall ==
    /\ net.pc = "idle"
    /\ \E num_classes \in NumClasses, wn \in 1..MaxWidthNum, arg \in SettingArgs,
       round_nearest \in RoundNearests :
        Construct(num_classes, wn, arg, round_nearest)

ForwardStart ==
    /\ net.pc = "done"
    /\ \E n \in 1..MaxBatch, qmode \in BOOLEAN : ForwardCall(n, qmode)

NextRounder == CallMakeDivisible
SpecRounder == InitRounder /\ [][NextRounder]_vars

NextBlock == InvertedResidualInit
SpecBlock == InitBlock /\ [][NextBlock]_vars

Next ==
    \/ ConstructCall
    \/ NextEntry
    \/ BuildBlock
    \/ EndEntry
    \/ Finish
    \/ ForwardStart
    \/ Quant
    \/ Features
    \/ Mean
    \/ Classifier
    \/ Dequant
Spec == Init /\ [][Next]_vars

(******************************* claims ************************************)
Range(q) == {q[k] : k \in 1..Len(q)}
Terminated == net.pc \in {"done", "raised"}
Compensated ==
    md.result = Rounded(md.vn, md.vd, md.divisor, md.min_value) + md.divisor

\* The schedule is empty or some entry does not have exactly 4 fields.
Malformed(setting) ==
    Len(setting) = 0 \/ \E k \in 1..Len(setting) : Len(setting[k]) # 4

\* A non-empty schedule of entries (t, c, n, s) of positive integers with
\* s in {1, 2}.
ValidSetting(setting) ==
    /\ Len(setting) > 0
    /\ \A k \in 1..Len(setting) :
           /\ Len(setting[k]) = 4
           /\ \A j \in 1..4 : setting[k][j] >= 1
           /\ setting[k][4] \in {1, 2}

\* C1: construction with a schedule that is empty or has any entry without
\* exactly 4 fields ends in the documented value error that names the
\* schedule.
C1_MalformedRaisesDocumentedError ==
    (Terminated /\ Malformed(net.setting))
        => (net.pc = "raised" /\ net.exc = DocumentedValueError)

\* C2: a block built with stride in {1, 2} exists, and its forward adds the
\* input exactly when stride = 1 and in_planes = out_planes.
C2_ShortcutIffStrideOneAndEqualPlanes ==
    (blk.called /\ blk.stride \in {1, 2})
        => /\ blk.obj.exc = "none"
           /\ UsesShortcut(blk.obj)
                  <=> (blk.stride = 1 /\ blk.in_planes = blk.out_planes)

\* C3: with the default min_value the result of _make_divisible is a
\* positive multiple of divisor, for every v > 0 and integer divisor > 0.
C3_PositiveMultipleOfDivisor ==
    (md.called /\ md.min_value = None)
        => (md.result > 0 /\ md.result % md.divisor = 0)

C3_Witness ==
    md.called /\ md.min_value = None /\ Compensated /\ md.vn % md.vd # 0

RECURSIVE ScheduledBlocks(_)
ScheduledBlocks(setting) ==
    IF setting = <<>> THEN <<>>
    ELSE LET e == Head(setting)
         IN  [i \in 1..e[3] |-> <<e[1], IF i = 1 THEN e[4] ELSE 1, e[2]>>]
                 \o ScheduledBlocks(Tail(setting))

BlockIn(b) == b.conv[1].in
BlockOut(b) == b.conv[Len(b.conv)].out
\* The depthwise step of an Inverted Residual block.
Depthwise(b) == b.conv[Len(b.conv) - 2]

\* C5: construction with the default schedule completes with a trunk of 19
\* blocks: the stem, 17 Inverted Residual blocks, the head.
C5_DefaultTrunkHas19Blocks ==
    (Terminated /\ net.arg_none)
        => /\ net.pc = "done"
           /\ Len(net.features) = 19
           /\ net.features[1].kind = "ConvBnReLU"
           /\ \A k \in 2..18 : net.features[k].kind = "InvertedResidual"
           /\ net.features[19].kind = "ConvBnReLU"

\* C6: for a valid schedule the trunk holds, between stem and head, the
\* scheduled blocks in order: n per entry with expansion ratio t, the first
\* with stride s and the others with stride 1, and every block's input
\* channel count is the output channel count of the block before it.
C6_BlocksFollowSchedule ==
    (Terminated /\ ValidSetting(net.setting))
        => /\ net.pc = "done"
           /\ LET want == ScheduledBlocks(net.setting)
              IN  /\ Len(net.features) = Len(want) + 2
                  /\ \A k \in 1..Len(want) :
                         LET b == net.features[k + 1]
                         IN  /\ b.kind = "InvertedResidual"
                             /\ Depthwise(b).in = want[k][1] * BlockIn(b)
                             /\ Depthwise(b).stride = want[k][2]
                  /\ \A k \in 2..Len(net.features) :
                         BlockIn(net.features[k]) = BlockOut(net.features[k - 1])

\* The statements of forward executed before the mean of line 157.
BeforeMean ==
    LET k == CHOOSE j \in 1..Len(fwd.trace) : fwd.trace[j] = "l157"
    IN  SubSeq(fwd.trace, 1, k - 1)

\* The quant marker has been passed and the dequant marker has not.
BetweenMarkers(steps) == "l155" \in Range(steps) /\ "l159" \notin Range(steps)

\* C7: the mean of the forward pass is not executed between the quant and
\* the dequant marker, and its operand is real-valued in either mode.
C7_MeanOutsideMarkers ==
    "l157" \in Range(fwd.trace)
        => (~BetweenMarkers(BeforeMean) /\ fwd.mean_in = "real")

\* C7 as the code has it: the mean is executed between the markers, after
\* the trunk and before the classifier; the dequant marker is the last
\* statement; in quantized mode the operand of the mean is quantized.
C7_MeanBetweenMarkers ==
    /\ "l157" \in Range(fwd.trace)
           => /\ BetweenMarkers(BeforeMean)
              /\ BeforeMean = <<"l155", "l156">>
              /\ fwd.mean_in = (IF fwd.qmode THEN "quantized" ELSE "real")
    /\ "l159" \in Range(fwd.trace) => fwd.trace[Len(fwd.trace)] = "l159"

C7_Witness ==
    fwd.pc = "return" /\ fwd.qmode /\ fwd.mean_in = "quantized"
        /\ fwd.trace = <<"l155", "l156", "l157", "l158", "l159">>

\* C8: a network constructed with the default width, schedule and rounding
\* exists, and its forward maps a batch (N, 3, 224, 224) to (N, num_classes)
\* without a shape mismatch.
C8_DefaultForwardShape ==
    (Terminated /\ net.arg_none /\ net.wn = WDen
                /\ net.round_nearest = DefaultRoundNearest)
        => /\ net.pc = "done"
           /\ fwd.pc # "raised"
           /\ fwd.pc = "return"
                  => (fwd.x.n = fwd.n /\ fwd.x.c = net.num_classes /\ fwd.x.h = 0)

\* C9: every construction of an Inverted Residual block with stride in
\* {1, 2} raises the attribute error before any sub-layer is built, and no
\* construction of a network with a valid schedule completes: it ends in
\* that error with only the stem in the trunk.
C9_BlockConstructionAlwaysFails ==
    /\ (blk.called /\ blk.stride \in {1, 2})
           => /\ blk.obj.exc = "AttributeError"
              /\ blk.obj.conv = <<>>
              /\ blk.obj.assigned = {}
    /\ \A a \in BlkArgs :
           a.stride \in {1, 2}
               => InvertedResidual(a.in_planes, a.out_planes, a.stride,
                                   a.expand_ratio) = NoBlock("AttributeError")
    /\ ValidSetting(net.setting)
           => /\ net.pc # "done"
              /\ net.pc = "raised"
                     => (net.exc = "AttributeError" /\ Len(net.features) = 1)

C9_Witness ==
    /\ net.pc = "raised"
    /\ net.exc = "AttributeError"
    /\ ValidSetting(net.setting)
    /\ ~net.arg_none
    /\ blk.called
    /\ blk.stride = 2

\* C10: the layer sequence of a block built with stride in {1, 2} is fixed
\* by expand_ratio: an optional 1x1 expansion (when expand_ratio # 1), the
\* depthwise step with groups = hidden and the configured stride, a 1x1
\* convolution of stride 1, and a final normalization without activation.
C10_LayerSequence ==
    (blk.called /\ blk.stride \in {1, 2})
        => /\ blk.obj.exc = "none"
           /\ LET hidden == blk.in_planes * blk.expand_ratio
                  dw == ConvBnReLU(hidden, hidden, 3, blk.stride, hidden)
                  tail == <<dw, Conv2d(hidden, blk.out_planes, 1, 1, 0, 1),
                            BatchNorm2d(blk.out_planes)>>
              IN  blk.obj.conv =
                      IF blk.expand_ratio # 1
                      THEN <<ConvBnReLU(blk.in_planes, hidden, 1, 1, 1)>> \o tail
                      ELSE tail

====
